---- MODULE Spec2Model ----
(***************************************************************************)
(* Model of backend/main.py: the users table and the register and login    *)
(* handlers, the in-memory preference store user_memory, the news helpers  *)
(* fetch_news, clean_headlines and summarize, and the chat handler; then   *)
(* the same handlers run step by step on concurrent threads.               *)
(*                                                                         *)
(* Python strings on which the code computes (messages, headlines,         *)
(* replies) are sequences of one-character strings, so that lower(),       *)
(* strip(), "in", split(), slicing and f-string formatting are computed.   *)
(* A code point outside ASCII is written "U+<hex>".                        *)
(***************************************************************************)
EXTENDS Integers, Sequences, FiniteSets, TLC

VARIABLES
    users,          \* rows of the users table, in insertion order
    user_memory,    \* the dict user_memory: user id -> "AI" | "TECH" | None
    NEWS_API_KEY,   \* os.getenv("NEWS_API_KEY"), read once at import
    resp,           \* the last request handled and the response it returned
    last_fetch,     \* the fetch_news calls of the last request and their outcome
    h_pc,           \* position of the helper pipeline run (SpecPure)
    h_in,           \* headlines given to clean_headlines / summarize
    h_cat,          \* category label given to summarize
    h_cleaned,      \* what clean_headlines returned
    h_sum_in,       \* the list summarize was called with
    h_summary,      \* what summarize returned
    th,             \* each worker thread: the request it handles, its position, its locals
    lin_memory      \* user_memory as left by the chat requests that have taken effect

progVars == <<users, user_memory, NEWS_API_KEY, resp, last_fetch>>
pureVars == <<h_pc, h_in, h_cat, h_cleaned, h_sum_in, h_summary>>
concVars == <<th, lin_memory>>
vars == <<users, user_memory, NEWS_API_KEY, resp, last_fetch,
          h_pc, h_in, h_cat, h_cleaned, h_sum_in, h_summary, th, lin_memory>>

\* Python's None, for a value that is otherwise a TLA+ string.
None == "<None>"

----------------------------------------------------------------------------
(* Bounds and input sets of the model. *)

\* The longest headline list given to the helpers in SpecPure.
MaxHeadlines == 4

Usernames == {"alice", "bob"}

Passwords == {"hunter2", "letmein"}

\* user_id values a chat request may carry: every id the table can hold and
\* one it never holds.
UserIds == 1..(Cardinality(Usernames) + 1)

----------------------------------------------------------------------------
(* String operations of Python, on sequences of characters. *)

LowerMap == [A |-> "a", B |-> "b", C |-> "c", D |-> "d", E |-> "e", F |-> "f", G |-> "g", H |-> "h", I |-> "i", J |-> "j", K |-> "k", L |-> "l", M |-> "m", N |-> "n", O |-> "o", P |-> "p", Q |-> "q", R |-> "r", S |-> "s", T |-> "t", U |-> "u", V |-> "v", W |-> "w", X |-> "x", Y |-> "y", Z |-> "z"]

\* str.lower(), on the letters the model's messages use
lower(s) == [i \in 1..Len(s) |-> IF s[i] \in DOMAIN LowerMap THEN LowerMap[s[i]] ELSE s[i]]

Whitespace == {" ", "\t", "\n", "\r", "\f"}

\* str.strip(): the text between the first and the last non-whitespace character
strip(s) ==
    LET keep == {i \in 1..Len(s) : s[i] \notin Whitespace}
    IN  IF keep = {} THEN <<>>
        ELSE SubSeq(s, CHOOSE i \in keep : \A j \in keep : i <= j,
                       CHOOSE i \in keep : \A j \in keep : i >= j)

\* the positions (0-based, as str.find) at which pat occurs in s
occurrences(pat, s) ==
    {i \in 0..(Len(s) - Len(pat)) : SubSeq(s, i + 1, i + Len(pat)) = pat}

\* pat in s
str_in(pat, s) == occurrences(pat, s) # {}

\* s.split(sep)[0]: the text before the first occurrence of sep, or all of s
split_first(s, sep) ==
    IF occurrences(sep, s) = {} THEN s
    ELSE LET first == CHOOSE i \in occurrences(sep, s) : \A j \in occurrences(sep, s) : i <= j
         IN  SubSeq(s, 1, first)

\* s[:n]
slice_to(s, n) == SubSeq(s, 1, IF n < Len(s) THEN n ELSE Len(s))

\* n copies of the character c
Rep(c, n) == [i \in 1..n |-> c]

----------------------------------------------------------------------------
(* String literals of main.py. *)

\* 'only ai news'
CMD_ONLY_AI == <<"o", "n", "l", "y", " ", "a", "i", " ", "n", "e", "w", "s">>
\* 'only tech news'
CMD_ONLY_TECH == <<"o", "n", "l", "y", " ", "t", "e", "c", "h", " ", "n", "e", "w", "s">>
\* 'reset'
CMD_RESET == <<"r", "e", "s", "e", "t">>
\* 'ai'
KW_AI == <<"a", "i">>
\* 'tech'
KW_TECH == <<"t", "e", "c", "h">>
\* 'news'
KW_NEWS == <<"n", "e", "w", "s">>
\* ' - '
SEP == <<" ", "-", " ">>
\* '...'
ELLIPSIS == <<".", ".", ".">>
\* 'AI'
Q_AI == <<"A", "I">>
\* 'technology'
Q_TECHNOLOGY == <<"t", "e", "c", "h", "n", "o", "l", "o", "g", "y">>
\* 'news'
Q_NEWS == <<"n", "e", "w", "s">>
\* 'AI'
L_AI == <<"A", "I">>
\* 'TECH'
L_TECH == <<"T", "E", "C", "H">>
\* 'GENERAL'
L_GENERAL == <<"G", "E", "N", "E", "R", "A", "L">>
\* 'Empty message.'
REPLY_EMPTY == <<"E", "m", "p", "t", "y", " ", "m", "e", "s", "s", "a", "g", "e", ".">>
\* 'Invalid user. Please login again.'
REPLY_INVALID_USER == <<"I", "n", "v", "a", "l", "i", "d", " ", "u", "s", "e", "r", ".", " ", "P", "l", "e", "a", "s", "e", " ", "l", "o", "g", "i", "n", " ", "a", "g", "a", "i", "n", ".">>
\* 'Locked to AI news \U0001f916'
REPLY_LOCKED_AI == <<"L", "o", "c", "k", "e", "d", " ", "t", "o", " ", "A", "I", " ", "n", "e", "w", "s", " ", "U+1F916">>
\* 'Locked to tech news \U0001f4bb'
REPLY_LOCKED_TECH == <<"L", "o", "c", "k", "e", "d", " ", "t", "o", " ", "t", "e", "c", "h", " ", "n", "e", "w", "s", " ", "U+1F4BB">>
\* 'Preferences reset.'
REPLY_RESET == <<"P", "r", "e", "f", "e", "r", "e", "n", "c", "e", "s", " ", "r", "e", "s", "e", "t", ".">>
\* 'No major updates right now.'
REPLY_NO_UPDATES == <<"N", "o", " ", "m", "a", "j", "o", "r", " ", "u", "p", "d", "a", "t", "e", "s", " ", "r", "i", "g", "h", "t", " ", "n", "o", "w", ".">>
\* 'Ask for AI news, tech news, or general news.'
REPLY_HELP == <<"A", "s", "k", " ", "f", "o", "r", " ", "A", "I", " ", "n", "e", "w", "s", ",", " ", "t", "e", "c", "h", " ", "n", "e", "w", "s", ",", " ", "o", "r", " ", "g", "e", "n", "e", "r", "a", "l", " ", "n", "e", "w", "s", ".">>
\* ' update: '
F_UPDATE == <<" ", "u", "p", "d", "a", "t", "e", ":", " ">>
\* ' and '
F_AND == <<" ", "a", "n", "d", " ">>
\* '.'
F_DOT == <<".">>

\* len(h) > 90
MaxHeadlineLen == 90
\* h[:87]
TruncLen == 87
\* cleaned[:3]
MaxCleaned == 3
\* len(headlines) < 2
MinHeadlines == 2

----------------------------------------------------------------------------
(* Inputs of the model. *)

\* ''
M_EMPTY == <<>>
\* ' \t\n'
M_WS == <<" ", "\t", "\n">>
\* 'Only AI News please'
M_ONLY_AI_UPPER == <<"O", "n", "l", "y", " ", "A", "I", " ", "N", "e", "w", "s", " ", "p", "l", "e", "a", "s", "e">>
\* 'only tech news'
M_ONLY_TECH == <<"o", "n", "l", "y", " ", "t", "e", "c", "h", " ", "n", "e", "w", "s">>
\* ' Please RESET '
M_RESET_UPPER == <<" ", "P", "l", "e", "a", "s", "e", " ", "R", "E", "S", "E", "T", " ">>
\* 'hello'
M_HELLO == <<"h", "e", "l", "l", "o">>
\* 'NEWS'
M_NEWS == <<"N", "E", "W", "S">>
\* 'brain'
M_BRAIN == <<"b", "r", "a", "i", "n">>
\* 'said'
M_SAID == <<"s", "a", "i", "d">>
\* 'aika'
M_AIKA == <<"a", "i", "k", "a">>
\* 'only tech news reset'
M_TECH_RESET == <<"o", "n", "l", "y", " ", "t", "e", "c", "h", " ", "n", "e", "w", "s", " ", "r", "e", "s", "e", "t">>
\* 'reset only ai news'
M_RESET_AI == <<"r", "e", "s", "e", "t", " ", "o", "n", "l", "y", " ", "a", "i", " ", "n", "e", "w", "s">>
\* 'only tech news only ai news'
M_AI_TECH_BOTH == <<"o", "n", "l", "y", " ", "t", "e", "c", "h", " ", "n", "e", "w", "s", " ", "o", "n", "l", "y", " ", "a", "i", " ", "n", "e", "w", "s">>
\* 'tech news ai'
M_TECH_NEWS_AI == <<"t", "e", "c", "h", " ", "n", "e", "w", "s", " ", "a", "i">>
\* 'tech news'
M_TECH_NEWS == <<"t", "e", "c", "h", " ", "n", "e", "w", "s">>

Messages ==
    {M_EMPTY, M_WS, M_ONLY_AI_UPPER, M_ONLY_TECH, M_RESET_UPPER, M_HELLO, M_NEWS,
     M_BRAIN, M_SAID, M_AIKA, M_TECH_RESET, M_RESET_AI, M_AI_TECH_BOTH,
     M_TECH_NEWS_AI, M_TECH_NEWS}

\* 'Chip sales rise'
H_PLAIN == <<"C", "h", "i", "p", " ", "s", "a", "l", "e", "s", " ", "r", "i", "s", "e">>
\* 'AI beats humans - Reuters'
H_SRC == <<"A", "I", " ", "b", "e", "a", "t", "s", " ", "h", "u", "m", "a", "n", "s", " ", "-", " ", "R", "e", "u", "t", "e", "r", "s">>
\* 'a - b - c'
H_TWO_SEP == <<"a", " ", "-", " ", "b", " ", "-", " ", "c">>
\* ' - lead'
H_LEAD_SEP == <<" ", "-", " ", "l", "e", "a", "d">>
\* 'Rates cut'
H_SHORT == <<"R", "a", "t", "e", "s", " ", "c", "u", "t">>
\* 90 characters: the longest headline left as it is
H_LEN90 == Rep("x", 90)
\* 91 characters: the shortest headline cut to 87 and "..."
H_LEN91 == Rep("y", 91)
\* 95 characters, then " - src": cut at the separator and still too long
H_LONG_SRC == Rep("z", 95) \o SEP \o <<"s", "r", "c">>
\* 88 characters, then " - s": 92 in all, 88 once cut at the separator
H_LEN88_SRC == Rep("w", 88) \o SEP \o <<"s">>

----------------------------------------------------------------------------
(* Credential store: the users table, hash_password, register, login. *)

\* hashlib.sha256(password.encode()).hexdigest(), tabulated for Passwords
Sha256Hex ==
    [hunter2 |-> "f52fbd32b2b3b86ff88ef6c490628285f482af15ddcb29541f94bcf526a3f6c7",
     letmein |-> "1c8bfe8f801d79745c4631d09fff36c82aa37fc4cce4fc946683d7b336b63032"]

hash_password(password) == Sha256Hex[password]

\* Faulty variant: the password is compared with the stored digest without hashing it.
verify_password_plain(password, hashed) == password = hashed

verify_password(password, hashed) == hash_password(password) = hashed

\* id INTEGER PRIMARY KEY AUTOINCREMENT: one more than the largest id ever used
\* (rows are never deleted, so the largest id in the table)
next_rowid ==
    IF users = <<>> THEN 1
    ELSE 1 + (CHOOSE m \in {users[i].id : i \in 1..Len(users)} :
                 \A i \in 1..Len(users) : users[i].id <= m)

\* Faulty variant: the username column has no UNIQUE constraint.
unique_violation_none(username) == FALSE

\* username TEXT UNIQUE: the INSERT raises sqlite3.IntegrityError
unique_violation(username) == \E i \in 1..Len(users) : users[i].username = username

\* SELECT id, password FROM users WHERE username=?
select_by_username(username) ==
    LET match(r) == r.username = username IN SelectSeq(users, match)

\* Faulty variant: the SELECT has no WHERE clause.
select_by_id_unfiltered(user_id) == users

\* SELECT id FROM users WHERE id=?
select_by_id(user_id) ==
    LET match(r) == r.id = user_id IN SelectSeq(users, match)

\* The body of a response.
StatusBody(s) == [kind |-> "status", text |-> s, user_id |-> 0, reply |-> <<>>]
ErrorBody(e) == [kind |-> "error", text |-> e, user_id |-> 0, reply |-> <<>>]
UserIdBody(n) == [kind |-> "user_id", text |-> "", user_id |-> n, reply |-> <<>>]
ReplyBody(r) == [kind |-> "reply", text |-> "", user_id |-> 0, reply |-> r]
\* an exception leaves the handler: the framework answers 500
RaisedBody(e) == [kind |-> "raised", text |-> e, user_id |-> 0, reply |-> <<>>]

\* The request of an AuthRequest / ChatRequest and what was returned for it.
AuthResp(op, username, password, body) ==
    [op |-> op, username |-> username, password |-> password,
     user_id |-> 0, message |-> <<>>, body |-> body]
ChatResp(user_id, message, body) ==
    [op |-> "chat", username |-> "", password |-> "",
     user_id |-> user_id, message |-> message, body |-> body]

\* fetch_news was not called by the request
NotCalled == [kind |-> "notcalled", has_articles |-> FALSE, articles |-> <<>>]
NoFetch == [calls |-> <<>>, outcome |-> NotCalled, returned |-> <<>>, raised |-> FALSE]

\* what register returns and the table it leaves
register_result(username, password) ==
    IF unique_violation(username)
    THEN [body |-> ErrorBody("Username already exists"), users |-> users]
    ELSE [body |-> StatusBody("registered"),
          users |-> Append(users, [id |-> next_rowid, username |-> username,
                                   password |-> hash_password(password)])]

register(username, password) ==
    /\ users' = register_result(username, password).users
    /\ resp' = AuthResp("register", username, password,
                        register_result(username, password).body)
    /\ last_fetch' = NoFetch
    /\ UNCHANGED <<user_memory, NEWS_API_KEY, pureVars, concVars>>

\* Faulty variant: an unknown username gets an error of its own.
login_result_enumerable(username, password) ==
    LET row == select_by_username(username)
    IN  IF row = <<>> THEN ErrorBody("User not found")
        ELSE IF ~verify_password(password, row[1].password)
        THEN ErrorBody("Invalid credentials")
        ELSE UserIdBody(row[1].id)

\* what login returns
login_result(username, password) ==
    LET row == select_by_username(username)
    IN  IF row = <<>> \/ ~verify_password(password, row[1].password)
        THEN ErrorBody("Invalid credentials")
        ELSE UserIdBody(row[1].id)

login(username, password) ==
    /\ resp' = AuthResp("login", username, password, login_result(username, password))
    /\ last_fetch' = NoFetch
    /\ UNCHANGED <<users, user_memory, NEWS_API_KEY, pureVars, concVars>>

----------------------------------------------------------------------------
(* News: fetch_news, clean_headlines, summarize. *)

\* JSON values a title may be: a string, null, a number (its literal text).
JStr(v) == [t |-> "str", v |-> v]
JNull == [t |-> "null", v |-> <<>>]
JNum(lit) == [t |-> "num", v |-> lit]

\* An article of the response: with a "title" key or without one.
Art(title) == [has_title |-> TRUE, title |-> title]
ArtNoTitle == [has_title |-> FALSE, title |-> JNull]

\* What requests.get(..., timeout=6) and response.json() can do: fail, time
\* out, answer with a body that is not JSON, or answer with a JSON object
\* without or with an "articles" list.
NetError == [kind |-> "error", has_articles |-> FALSE, articles |-> <<>>]
TimedOut == [kind |-> "timeout", has_articles |-> FALSE, articles |-> <<>>]
Unparsable == [kind |-> "unparsable", has_articles |-> FALSE, articles |-> <<>>]
JsonNoArticles == [kind |-> "json", has_articles |-> FALSE, articles |-> <<>>]
JsonArticles(arts) == [kind |-> "json", has_articles |-> TRUE, articles |-> arts]

\* one usable title among articles without one
ARTS_ONE_TITLED == <<ArtNoTitle, Art(JStr(H_PLAIN)), Art(JNull)>>
\* a full page: four usable titles and an empty one
ARTS_FIVE == <<Art(JStr(H_SRC)), Art(JStr(<<>>)), Art(JStr(H_PLAIN)),
               Art(JStr(H_SHORT)), Art(JStr(H_TWO_SEP))>>
\* a title that is a number
ARTS_NUM_TITLE == <<Art(JStr(H_PLAIN)), Art(JNum(<<"7">>)), Art(JStr(H_SHORT))>>

FetchOutcomes ==
    {NetError, TimedOut, Unparsable, JsonNoArticles}
    \cup {JsonArticles(a) : a \in {ARTS_ONE_TITLED, ARTS_FIVE, ARTS_NUM_TITLE}}

\* not NEWS_API_KEY
no_api_key == NEWS_API_KEY = None \/ NEWS_API_KEY = ""

\* a.get("title"), and whether Python takes it as true
article_title(a) == IF a.has_title THEN a.title ELSE JNull
truthy(j) == (j.t = "str" /\ j.v # <<>>) \/ (j.t = "num" /\ j.v # <<"0">>)

\* [a["title"] for a in data.get("articles", []) if a.get("title")]
titles_of(arts) ==
    LET keep(a) == truthy(article_title(a))
        kept == SelectSeq(arts, keep)
    IN  [i \in 1..Len(kept) |-> kept[i].title]

\* Faulty variant: no try / except around the request, so its exceptions leave fetch_news.
fetch_news_uncaught(query, outcome) ==
    IF no_api_key
    THEN [calls |-> <<query>>, outcome |-> NotCalled, returned |-> <<>>, raised |-> FALSE]
    ELSE IF outcome.kind # "json"
    THEN [calls |-> <<query>>, outcome |-> outcome, returned |-> <<>>, raised |-> TRUE]
    ELSE [calls |-> <<query>>, outcome |-> outcome, raised |-> FALSE,
          returned |-> IF outcome.has_articles THEN titles_of(outcome.articles) ELSE <<>>]

\* fetch_news(query) when the news source does `outcome`: the outcome seen
\* (NotCalled without a key), the list returned and whether an exception left
\* the function. requests.get raises on a failure or a timeout and
\* response.json() on a body that is not JSON; `except Exception` turns each
\* into [].
fetch_news(query, outcome) ==
    IF no_api_key
    THEN [calls |-> <<query>>, outcome |-> NotCalled, returned |-> <<>>, raised |-> FALSE]
    ELSE IF outcome.kind # "json"
    THEN [calls |-> <<query>>, outcome |-> outcome, returned |-> <<>>, raised |-> FALSE]
    ELSE [calls |-> <<query>>, outcome |-> outcome, raised |-> FALSE,
          returned |-> IF outcome.has_articles THEN titles_of(outcome.articles) ELSE <<>>]

\* Faulty variant: a long headline keeps 90 characters before the "...", not 87.
clean_one_cut_at_limit(h) ==
    LET h1 == IF str_in(SEP, h) THEN split_first(h, SEP) ELSE h
    IN  IF Len(h1) > MaxHeadlineLen THEN slice_to(h1, MaxHeadlineLen) \o ELLIPSIS ELSE h1

\* one turn of the loop of clean_headlines
clean_one(h) ==
    LET h1 == IF str_in(SEP, h) THEN split_first(h, SEP) ELSE h
    IN  IF Len(h1) > MaxHeadlineLen THEN slice_to(h1, TruncLen) \o ELLIPSIS ELSE h1

clean_headlines(headlines) ==
    slice_to([i \in 1..Len(headlines) |-> clean_one(headlines[i])], MaxCleaned)

\* `" - " in h` raises TypeError when h is not a string
clean_headlines_raises(titles) == \E i \in 1..Len(titles) : titles[i].t # "str"

\* Faulty variant: the second headline of the sentence is the last of the list.
summarize_last(headlines, category) ==
    IF Len(headlines) < MinHeadlines THEN REPLY_NO_UPDATES
    ELSE category \o F_UPDATE \o headlines[1] \o F_AND \o headlines[Len(headlines)] \o F_DOT

summarize(headlines, category) ==
    IF Len(headlines) < MinHeadlines THEN REPLY_NO_UPDATES
    ELSE category \o F_UPDATE \o headlines[1] \o F_AND \o headlines[2] \o F_DOT

----------------------------------------------------------------------------
(* The chat handler. *)

\* Faulty variant: the entry is assigned on every request, not only when absent.
setdefault_overwrite(mem, key, value) ==
    [k \in DOMAIN mem \cup {key} |-> IF k = key THEN value ELSE mem[k]]

\* user_memory.setdefault(key, value)
setdefault(mem, key, value) == IF key \in DOMAIN mem THEN mem ELSE mem @@ (key :> value)

\* Faulty variant: the chain without its two preference branches.
route_without_preference(text, pref) ==
    IF str_in(CMD_ONLY_AI, text) THEN "lock_ai"
    ELSE IF str_in(CMD_ONLY_TECH, text) THEN "lock_tech"
    ELSE IF str_in(CMD_RESET, text) THEN "reset"
    ELSE IF str_in(KW_AI, text) THEN "kw_ai"
    ELSE IF str_in(KW_TECH, text) THEN "kw_tech"
    ELSE IF str_in(KW_NEWS, text) THEN "kw_news"
    ELSE "help"

\* Faulty variant: "reset" is tested before the two lock commands.
route_reset_first(text, pref) ==
    IF str_in(CMD_RESET, text) THEN "reset"
    ELSE IF str_in(CMD_ONLY_AI, text) THEN "lock_ai"
    ELSE IF str_in(CMD_ONLY_TECH, text) THEN "lock_tech"
    ELSE IF pref = "AI" THEN "pref_ai"
    ELSE IF pref = "TECH" THEN "pref_tech"
    ELSE IF str_in(KW_AI, text) THEN "kw_ai"
    ELSE IF str_in(KW_TECH, text) THEN "kw_tech"
    ELSE IF str_in(KW_NEWS, text) THEN "kw_news"
    ELSE "help"

\* Faulty variant: the keywords are tested before the stored preference.
route_keywords_first(text, pref) ==
    IF str_in(CMD_ONLY_AI, text) THEN "lock_ai"
    ELSE IF str_in(CMD_ONLY_TECH, text) THEN "lock_tech"
    ELSE IF str_in(CMD_RESET, text) THEN "reset"
    ELSE IF str_in(KW_AI, text) THEN "kw_ai"
    ELSE IF str_in(KW_TECH, text) THEN "kw_tech"
    ELSE IF str_in(KW_NEWS, text) THEN "kw_news"
    ELSE IF pref = "AI" THEN "pref_ai"
    ELSE IF pref = "TECH" THEN "pref_tech"
    ELSE "help"

\* Faulty variant: "tech" is tested before "ai".
route_tech_before_ai(text, pref) ==
    IF str_in(CMD_ONLY_AI, text) THEN "lock_ai"
    ELSE IF str_in(CMD_ONLY_TECH, text) THEN "lock_tech"
    ELSE IF str_in(CMD_RESET, text) THEN "reset"
    ELSE IF pref = "AI" THEN "pref_ai"
    ELSE IF pref = "TECH" THEN "pref_tech"
    ELSE IF str_in(KW_TECH, text) THEN "kw_tech"
    ELSE IF str_in(KW_AI, text) THEN "kw_ai"
    ELSE IF str_in(KW_NEWS, text) THEN "kw_news"
    ELSE "help"

\* Faulty variant: "ai" matches only at the start of the text.
route_ai_at_start(text, pref) ==
    IF str_in(CMD_ONLY_AI, text) THEN "lock_ai"
    ELSE IF str_in(CMD_ONLY_TECH, text) THEN "lock_tech"
    ELSE IF str_in(CMD_RESET, text) THEN "reset"
    ELSE IF pref = "AI" THEN "pref_ai"
    ELSE IF pref = "TECH" THEN "pref_tech"
    ELSE IF Len(text) >= 2 /\ text[1] = "a" /\ text[2] = "i" THEN "kw_ai"
    ELSE IF str_in(KW_TECH, text) THEN "kw_tech"
    ELSE IF str_in(KW_NEWS, text) THEN "kw_news"
    ELSE "help"

\* the if / elif chain over the lowercased text and the stored preference
route(text, pref) ==
    IF str_in(CMD_ONLY_AI, text) THEN "lock_ai"
    ELSE IF str_in(CMD_ONLY_TECH, text) THEN "lock_tech"
    ELSE IF str_in(CMD_RESET, text) THEN "reset"
    ELSE IF pref = "AI" THEN "pref_ai"
    ELSE IF pref = "TECH" THEN "pref_tech"
    ELSE IF str_in(KW_AI, text) THEN "kw_ai"
    ELSE IF str_in(KW_TECH, text) THEN "kw_tech"
    ELSE IF str_in(KW_NEWS, text) THEN "kw_news"
    ELSE "help"

\* not data.message.strip()
is_blank(message) == strip(message) = <<>>

\* The string computations of chat on each message of the model, tabulated
\* (@@ <<>> makes the table an explicit one): they depend on the message
\* alone and, for the chain, on the preference.
Prefs == {None, "AI", "TECH"}
BlankTable == [m \in Messages |-> is_blank(m)] @@ <<>>
RouteTable == [m \in Messages |-> [pref \in Prefs |-> route(lower(m), pref)] @@ <<>>] @@ <<>>

\* The handler as a function of the preference store it runs on: the branch a
\* request takes when it runs alone on mem, and the store it leaves.
seq_branch(mem, user_id, message) ==
    IF BlankTable[message] THEN "empty"
    ELSE IF select_by_id(user_id) = <<>> THEN "invalid"
    ELSE RouteTable[message][setdefault(mem, user_id, None)[user_id]]
seq_memory(mem, branch, user_id) ==
    IF branch \in {"empty", "invalid"} THEN mem
    ELSE LET m1 == setdefault(mem, user_id, None)
         IN  IF branch = "lock_ai" THEN [m1 EXCEPT ![user_id] = "AI"]
             ELSE IF branch = "lock_tech" THEN [m1 EXCEPT ![user_id] = "TECH"]
             ELSE IF branch = "reset" THEN [m1 EXCEPT ![user_id] = None]
             ELSE m1

\* Faulty variant: the user is looked up before the message is tested for emptiness.
chat_branch_user_first(user_id, message) ==
    IF select_by_id(user_id) = <<>> THEN "invalid"
    ELSE IF BlankTable[message] THEN "empty"
    ELSE RouteTable[message][setdefault(user_memory, user_id, None)[user_id]]

\* the branch of chat a request takes: the two early returns, then the chain
chat_branch(user_id, message) ==
    IF BlankTable[message] THEN "empty"
    ELSE IF select_by_id(user_id) = <<>> THEN "invalid"
    ELSE RouteTable[message][setdefault(user_memory, user_id, None)[user_id]]

\* Faulty variant: setdefault runs before the user lookup, so an unknown id gets an entry.
chat_memory_default_first(branch, user_id) ==
    IF branch = "empty" THEN user_memory
    ELSE LET mem == setdefault(user_memory, user_id, None)
         IN  IF branch = "lock_ai" THEN [mem EXCEPT ![user_id] = "AI"]
             ELSE IF branch = "lock_tech" THEN [mem EXCEPT ![user_id] = "TECH"]
             ELSE IF branch = "reset" THEN [mem EXCEPT ![user_id] = None]
             ELSE mem

\* Faulty variant: a keyword-driven fetch also stores the category it fetched.
chat_memory_sticky_keyword(branch, user_id) ==
    IF branch \in {"empty", "invalid"} THEN user_memory
    ELSE LET mem == setdefault(user_memory, user_id, None)
         IN  IF branch \in {"lock_ai", "kw_ai"} THEN [mem EXCEPT ![user_id] = "AI"]
             ELSE IF branch \in {"lock_tech", "kw_tech"} THEN [mem EXCEPT ![user_id] = "TECH"]
             ELSE IF branch = "reset" THEN [mem EXCEPT ![user_id] = None]
             ELSE mem

\* user_memory when the request returns
chat_memory(branch, user_id) ==
    IF branch \in {"empty", "invalid"} THEN user_memory
    ELSE LET mem == setdefault(user_memory, user_id, None)
         IN  IF branch = "lock_ai" THEN [mem EXCEPT ![user_id] = "AI"]
             ELSE IF branch = "lock_tech" THEN [mem EXCEPT ![user_id] = "TECH"]
             ELSE IF branch = "reset" THEN [mem EXCEPT ![user_id] = None]
             ELSE mem

FetchBranches == {"pref_ai", "pref_tech", "kw_ai", "kw_tech", "kw_news"}

\* the query given to fetch_news and the label given to summarize
branch_query(branch) ==
    IF branch \in {"pref_ai", "kw_ai"} THEN Q_AI
    ELSE IF branch \in {"pref_tech", "kw_tech"} THEN Q_TECHNOLOGY
    ELSE Q_NEWS
branch_label(branch) ==
    IF branch \in {"pref_ai", "kw_ai"} THEN L_AI
    ELSE IF branch \in {"pref_tech", "kw_tech"} THEN L_TECH
    ELSE L_GENERAL

\* the fetch_news call of the request, if its branch makes one
chat_fetch(branch, outcome) ==
    IF branch \in FetchBranches THEN fetch_news(branch_query(branch), outcome) ELSE NoFetch

\* summarize(clean_headlines(fetch_news(...)), label) for the list fetch_news returned
fetch_reply(fetched, label) ==
    IF clean_headlines_raises(fetched) THEN RaisedBody("TypeError")
    ELSE ReplyBody(summarize(clean_headlines([i \in 1..Len(fetched) |-> fetched[i].v]), label))

\* fetch_reply tabulated over the lists fetch_news can return in the model
ReturnedLists == {<<>>} \cup {titles_of(o.articles) : o \in FetchOutcomes}
FetchLabels == {L_AI, L_TECH, L_GENERAL}
FetchReplyTable ==
    [t \in ReturnedLists |-> [l \in FetchLabels |-> fetch_reply(t, l)] @@ <<>>] @@ <<>>

\* what chat returns, given what its fetch_news call (if any) did
chat_body(branch, fetch) ==
    IF branch = "empty" THEN ReplyBody(REPLY_EMPTY)
    ELSE IF branch = "invalid" THEN ReplyBody(REPLY_INVALID_USER)
    ELSE IF branch = "lock_ai" THEN ReplyBody(REPLY_LOCKED_AI)
    ELSE IF branch = "lock_tech" THEN ReplyBody(REPLY_LOCKED_TECH)
    ELSE IF branch = "reset" THEN ReplyBody(REPLY_RESET)
    ELSE IF branch = "help" THEN ReplyBody(REPLY_HELP)
    ELSE IF fetch.raised THEN RaisedBody("Exception")
    ELSE FetchReplyTable[fetch.returned][branch_label(branch)]

\* what the news source may do during the request: it is reached only on a
\* fetch branch and with a key
transport_outcomes(branch) ==
    IF branch \in FetchBranches /\ ~no_api_key THEN FetchOutcomes ELSE {NotCalled}

chat(user_id, message) ==
    LET branch == chat_branch(user_id, message)
    IN  \E outcome \in transport_outcomes(branch) :
            LET fetch == chat_fetch(branch, outcome)
            IN  /\ user_memory' = chat_memory(branch, user_id)
                /\ last_fetch' = fetch
                /\ resp' = ChatResp(user_id, message, chat_body(branch, fetch))
                /\ lin_memory' = seq_memory(lin_memory, seq_branch(lin_memory, user_id, message), user_id)
                /\ UNCHANGED <<users, NEWS_API_KEY, pureVars, th>>

----------------------------------------------------------------------------
(* The server: the state after import, and one step per request. *)

NoResp == [op |-> "none", username |-> "", password |-> "", user_id |-> 0,
           message |-> <<>>, body |-> StatusBody("")]

\* The thread pool that runs the handlers (they are plain `def` functions): a
\* thread that handles no request.
Threads == {"t1", "t2"}
Idle == [pc |-> "idle", op |-> "none", username |-> "", password |-> "", user_id |-> 0,
         message |-> <<>>, pref |-> None, fetch |-> NoFetch, body |-> StatusBody(""),
         lin_branch |-> "none"]

ProgInit ==
    /\ users = <<>>
    /\ user_memory = <<>>
    /\ resp = NoResp
    /\ last_fetch = NoFetch
    /\ th = [t \in Threads |-> Idle]
    /\ lin_memory = <<>>

PureIdle ==
    /\ h_pc = "idle"
    /\ h_in = <<>>
    /\ h_cat = <<>>
    /\ h_cleaned = <<>>
    /\ h_sum_in = <<>>
    /\ h_summary = <<>>

Init ==
    /\ ProgInit
    /\ NEWS_API_KEY \in {None, "", "k3y"}
    /\ PureIdle

Next ==
    \/ \E u \in Usernames, p \in Passwords : register(u, p)
    \/ \E u \in Usernames, p \in Passwords : login(u, p)
    \/ \E id \in UserIds, m \in Messages : chat(id, m)

Spec == Init /\ [][Next]_vars

----------------------------------------------------------------------------
(* The server under concurrent requests. The handlers are plain functions,   *)
(* which the framework runs on the threads of a pool; they share the one     *)
(* sqlite connection and the dict user_memory and take no lock. A step is    *)
(* one access to the table or to the dict, together with the local           *)
(* computation that follows it: a statement on the connection and a dict     *)
(* operation on an int key are each indivisible in CPython.                  *)

\* The requests the threads are given.
ConcUserIds == 1..Cardinality(Usernames)
ConcMessages == {M_WS, M_ONLY_AI_UPPER, M_ONLY_TECH, M_RESET_UPPER, M_HELLO}
ConcOutcomes == {TimedOut, JsonArticles(ARTS_FIVE)}

\* Faulty variant: one preference for everybody.
store_pref_all(mem, key, value) == [k \in DOMAIN mem \cup {key} |-> value]

\* user_memory[key] = value
store_pref(mem, key, value) ==
    [k \in DOMAIN mem \cup {key} |-> IF k = key THEN value ELSE mem[k]]

\* the assignment to user_memory of a command branch, if the branch is one
CommandBranches == {"lock_ai", "lock_tech", "reset"}
branch_store(mem, branch, user_id) ==
    IF branch = "lock_ai" THEN store_pref(mem, user_id, "AI")
    ELSE IF branch = "lock_tech" THEN store_pref(mem, user_id, "TECH")
    ELSE IF branch = "reset" THEN store_pref(mem, user_id, None)
    ELSE mem

conc_outcomes(branch) ==
    IF branch \in FetchBranches /\ ~no_api_key THEN ConcOutcomes ELSE {NotCalled}

Done(t, body) == [th EXCEPT ![t].pc = "done", ![t].body = body]

\* register: hash_password and the INSERT; the UNIQUE constraint decides
reg_insert(t, username, password) ==
    /\ th[t].pc = "idle"
    /\ LET r == register_result(username, password)
           call == [Idle EXCEPT !.op = "register", !.username = username,
                                !.password = password]
       IN  /\ users' = r.users
           /\ th' = [th EXCEPT ![t] =
                        IF r.body.kind = "error"
                        THEN [call EXCEPT !.pc = "done", !.body = r.body]
                        ELSE [call EXCEPT !.pc = "r_commit"]]
    /\ UNCHANGED <<user_memory, NEWS_API_KEY, resp, last_fetch, pureVars, lin_memory>>

\* register: db.commit() and the return value
reg_commit(t) ==
    /\ th[t].pc = "r_commit"
    /\ th' = Done(t, StatusBody("registered"))
    /\ UNCHANGED <<progVars, pureVars, lin_memory>>

\* login: the SELECT, verify_password on its row and the return value
login_select(t, username, password) ==
    /\ th[t].pc = "idle"
    /\ th' = [th EXCEPT ![t] =
                 [Idle EXCEPT !.op = "login", !.username = username, !.password = password,
                              !.pc = "done", !.body = login_result(username, password)]]
    /\ UNCHANGED <<progVars, pureVars, lin_memory>>

\* chat: the strip() test, then the SELECT by id; the two early returns
chat_lookup(t, user_id, message) ==
    /\ th[t].pc = "idle"
    /\ LET call == [Idle EXCEPT !.op = "chat", !.user_id = user_id, !.message = message]
       IN  th' = [th EXCEPT ![t] =
                     IF BlankTable[message]
                     THEN [call EXCEPT !.pc = "done", !.body = ReplyBody(REPLY_EMPTY),
                                       !.lin_branch = "empty"]
                     ELSE IF select_by_id(user_id) = <<>>
                     THEN [call EXCEPT !.pc = "done", !.body = ReplyBody(REPLY_INVALID_USER),
                                       !.lin_branch = "invalid"]
                     ELSE [call EXCEPT !.pc = "c_default"]]
    /\ UNCHANGED <<progVars, pureVars, lin_memory>>

\* chat: user_memory.setdefault(data.user_id, None)
chat_setdefault(t) ==
    /\ th[t].pc = "c_default"
    /\ user_memory' = setdefault(user_memory, th[t].user_id, None)
    /\ th' = [th EXCEPT ![t].pc = "c_read"]
    /\ UNCHANGED <<users, NEWS_API_KEY, resp, last_fetch, pureVars, lin_memory>>

\* chat: pref = user_memory[data.user_id]. A request without a command takes
\* effect here: what it does from here on depends on pref alone.
chat_read(t) ==
    /\ th[t].pc = "c_read"
    /\ LET id == th[t].user_id
           m == th[t].message
           b == seq_branch(lin_memory, id, m)
       IN  IF b \in CommandBranches
           THEN /\ th' = [th EXCEPT ![t].pc = "c_act", ![t].pref = user_memory[id]]
                /\ UNCHANGED lin_memory
           ELSE /\ th' = [th EXCEPT ![t].pc = "c_act", ![t].pref = user_memory[id],
                                    ![t].lin_branch = b]
                /\ lin_memory' = seq_memory(lin_memory, b, id)
    /\ UNCHANGED <<progVars, pureVars>>

\* chat: the if / elif chain on text and pref, with the assignment of a command
\* branch or the fetch_news call of a fetch branch, up to the return value. A
\* request with a command takes effect at its assignment.
chat_act(t) ==
    /\ th[t].pc = "c_act"
    /\ LET id == th[t].user_id
           m == th[t].message
           branch == RouteTable[m][th[t].pref]
           b == seq_branch(lin_memory, id, m)
       IN  \E outcome \in conc_outcomes(branch) :
               LET fetch == chat_fetch(branch, outcome)
               IN  /\ user_memory' = branch_store(user_memory, branch, id)
                   /\ IF b \in CommandBranches
                      THEN /\ lin_memory' = seq_memory(lin_memory, b, id)
                           /\ th' = [th EXCEPT ![t].pc = "done", ![t].fetch = fetch,
                                               ![t].body = chat_body(branch, fetch),
                                               ![t].lin_branch = b]
                      ELSE /\ UNCHANGED lin_memory
                           /\ th' = [th EXCEPT ![t].pc = "done", ![t].fetch = fetch,
                                               ![t].body = chat_body(branch, fetch)]
    /\ UNCHANGED <<users, NEWS_API_KEY, resp, last_fetch, pureVars>>

\* the response is sent and the thread is free again
respond(t) ==
    /\ th[t].pc = "done"
    /\ th' = [th EXCEPT ![t] = Idle]
    /\ UNCHANGED <<progVars, pureVars, lin_memory>>

InitConc ==
    /\ ProgInit
    /\ NEWS_API_KEY = "k3y"
    /\ PureIdle

NextConc ==
    \/ \E t \in Threads, u \in Usernames, p \in Passwords : reg_insert(t, u, p)
    \/ \E t \in Threads : reg_commit(t)
    \/ \E t \in Threads, u \in Usernames, p \in Passwords : login_select(t, u, p)
    \/ \E t \in Threads, id \in ConcUserIds, m \in ConcMessages : chat_lookup(t, id, m)
    \/ \E t \in Threads : chat_setdefault(t)
    \/ \E t \in Threads : chat_read(t)
    \/ \E t \in Threads : chat_act(t)
    \/ \E t \in Threads : respond(t)

SpecConc == InitConc /\ [][NextConc]_vars

----------------------------------------------------------------------------
(* The helpers alone: clean_headlines and summarize applied to drawn inputs. *)

HeadlinePool ==
    {H_PLAIN, H_SRC, H_TWO_SEP, H_LEAD_SEP, H_LEN90, H_LEN91, H_LONG_SRC, H_LEN88_SRC}

RECURSIVE ListsUpTo(_, _)
ListsUpTo(S, n) ==
    IF n = 0 THEN {<<>>}
    ELSE LET shorter == ListsUpTo(S, n - 1)
         IN  shorter \cup {Append(l, x) : l \in {k \in shorter : Len(k) = n - 1}, x \in S}

HeadlineLists == ListsUpTo(HeadlinePool, MaxHeadlines)

Labels == {L_AI, L_TECH, L_GENERAL}

InitPure ==
    /\ ProgInit
    /\ NEWS_API_KEY = None
    /\ h_pc = "start"
    /\ h_in \in HeadlineLists
    /\ h_cat = <<>>
    /\ h_cleaned = <<>>
    /\ h_sum_in = <<>>
    /\ h_summary = <<>>

clean_call ==
    /\ h_pc = "start"
    /\ h_cleaned' = clean_headlines(h_in)
    /\ h_pc' = "cleaned"
    /\ UNCHANGED <<progVars, concVars, h_in, h_cat, h_sum_in, h_summary>>

\* summarize on the raw list or on the cleaned one, as chat calls it
summarize_call(category) ==
    /\ h_pc \in {"start", "cleaned"}
    /\ h_sum_in' = (IF h_pc = "start" THEN h_in ELSE h_cleaned)
    /\ h_cat' = category
    /\ h_summary' = summarize(h_sum_in', category)
    /\ h_pc' = "summarized"
    /\ UNCHANGED <<progVars, concVars, h_in, h_cleaned>>

NextPure ==
    \/ clean_call
    \/ \E c \in Labels : summarize_call(c)

SpecPure == InitPure /\ [][NextPure]_vars

----------------------------------------------------------------------------
(* Vocabulary of the properties. *)

\* the preference stored for a user id: an absent entry reads as unset
Pref(mem, id) == IF id \in DOMAIN mem THEN mem[id] ELSE None

\* s begins with prefix
StartsWith(s, prefix) == Len(s) >= Len(prefix) /\ SubSeq(s, 1, Len(prefix)) = prefix

\* every character of the message is whitespace (the empty message included)
AllWhitespace(m) == \A i \in 1..Len(m) : m[i] \in Whitespace

\* the lowercased message contains a command / contains one of "ai", "tech", "news"
HasCommand(m) ==
    str_in(CMD_ONLY_AI, lower(m)) \/ str_in(CMD_ONLY_TECH, lower(m)) \/ str_in(CMD_RESET, lower(m))
HasKeyword(m) ==
    str_in(KW_AI, lower(m)) \/ str_in(KW_TECH, lower(m)) \/ str_in(KW_NEWS, lower(m))

\* the same, tabulated over the messages of the model
AllWhitespaceOf == [m \in Messages |-> AllWhitespace(m)] @@ <<>>
HasCommandOf == [m \in Messages |-> HasCommand(m)] @@ <<>>
HasKeywordOf == [m \in Messages |-> HasKeyword(m)] @@ <<>>
HasOnlyAiOf == [m \in Messages |-> str_in(CMD_ONLY_AI, lower(m))] @@ <<>>
HasOnlyTechOf == [m \in Messages |-> str_in(CMD_ONLY_TECH, lower(m))] @@ <<>>
HasResetOf == [m \in Messages |-> str_in(CMD_RESET, lower(m))] @@ <<>>

\* the step is a chat request; the table holds a row with this id / this username
ChatStep == resp'.op = "chat"
Registered(id) == \E i \in 1..Len(users) : users[i].id = id
HasRow(username) == \E i \in 1..Len(users) : users[i].username = username

\* the request went through the fetch branch with this query and label: one
\* fetch_news call with the query, and a reply that is the fallback or begins
\* with "<label> update: "
FetchedAs(r, f, query, label) ==
    /\ f.calls = <<query>>
    /\ r.body.kind = "reply" =>
           (r.body.reply = REPLY_NO_UPDATES \/ StartsWith(r.body.reply, label \o F_UPDATE))

----------------------------------------------------------------------------
(* Credential store. *)

\* C1: a register of a username not yet in the table answers "registered", and
\* from then on a login with the same username and password answers a user id;
\* the user id a login answers for given credentials never changes, whatever
\* request is handled; every login request gets that answer.
C1_RegisterThenLoginStable ==
    [][ /\ \A u \in Usernames, p \in Passwords :
               /\ (/\ resp' = AuthResp("register", u, p, resp'.body)
                   /\ ~HasRow(u)) =>
                      /\ resp'.body = StatusBody("registered")
                      /\ login_result(u, p)'.kind = "user_id"
               /\ login_result(u, p).kind = "user_id" =>
                      login_result(u, p)' = login_result(u, p)
        /\ resp'.op = "login" =>
               resp'.body = login_result(resp'.username, resp'.password)
      ]_vars

\* a login answers user id 1 when two users are registered and a chat has been handled
C1_Witness ==
    /\ resp.op = "login"
    /\ resp.body = UserIdBody(1)
    /\ Len(users) = 2
    /\ DOMAIN user_memory # {}

\* C2: a register of a username already in the table answers "Username already
\* exists" whatever the password, leaves the table as it was, and leaves what a
\* login answers for that username as it was for every password; the table never
\* holds two rows with one username, and no username ever logs in with more than
\* one password.
C2_DuplicateRegisterRejected ==
    /\ [][ \A u \in Usernames :
               (resp'.op = "register" /\ resp'.username = u /\ HasRow(u)) =>
                   /\ resp'.body = ErrorBody("Username already exists")
                   /\ users' = users
                   /\ \A p \in Passwords : login_result(u, p)' = login_result(u, p)
         ]_vars
    /\ [](\A i, j \in 1..Len(users) : users[i].username = users[j].username => i = j)
    /\ [](\A u \in Usernames :
              Cardinality({p \in Passwords : login_result(u, p).kind = "user_id"}) <= 1)

\* a register was refused for a username whose stored password is another one
C2_Witness ==
    /\ resp.op = "register"
    /\ resp.body = ErrorBody("Username already exists")
    /\ \E i \in 1..Len(users) :
           /\ users[i].username = resp.username
           /\ users[i].password # hash_password(resp.password)
    /\ login_result(resp.username, resp.password).kind = "error"

\* C3: a login with a username that has no row, and a login with a username that
\* has a row whose stored digest is not the digest of the password given, get the
\* same response, {error: "Invalid credentials"}.
C3_LoginFailuresIdentical ==
    [][ resp'.op = "login" =>
            LET rows == select_by_username(resp'.username)
                unknown == rows = <<>>
                wrong == rows # <<>> /\ rows[1].password # hash_password(resp'.password)
            IN  (unknown \/ wrong) => resp'.body = ErrorBody("Invalid credentials")
      ]_vars

\* a login was refused for a registered username while the other username is unknown
C3_Witness ==
    /\ resp.op = "login"
    /\ resp.body = ErrorBody("Invalid credentials")
    /\ select_by_username(resp.username) # <<>>
    /\ \E u \in Usernames : select_by_username(u) = <<>>

----------------------------------------------------------------------------
(* The chat handler. *)

\* C4, as stated: a chat with an unregistered user id and a message that is not
\* the empty string is answered "Invalid user. Please login again.", leaves
\* user_memory as it was and calls fetch_news never.
C4_AsStated ==
    [][ (ChatStep /\ ~Registered(resp'.user_id) /\ resp'.message # <<>>) =>
            /\ resp'.body = ReplyBody(REPLY_INVALID_USER)
            /\ user_memory' = user_memory
            /\ last_fetch'.calls = <<>>
      ]_vars

\* C4, amended: a chat with an unregistered user id and a message that is neither
\* empty nor made of whitespace only is answered "Invalid user. Please login
\* again.", leaves user_memory as it was (no entry gained, no entry changed, also
\* when the message holds a command) and calls fetch_news never.
C4_InvalidUserNoEffect ==
    [][ (ChatStep /\ ~Registered(resp'.user_id) /\ ~AllWhitespaceOf[resp'.message]) =>
            /\ resp'.body = ReplyBody(REPLY_INVALID_USER)
            /\ user_memory' = user_memory
            /\ resp'.user_id \notin DOMAIN user_memory'
            /\ last_fetch'.calls = <<>>
      ]_vars

\* an unregistered id sent a command while another user is registered and has an entry
C4_Witness ==
    /\ resp.op = "chat"
    /\ resp.body = ReplyBody(REPLY_INVALID_USER)
    /\ HasCommandOf[resp.message]
    /\ users # <<>>
    /\ DOMAIN user_memory # {}
    /\ resp.user_id \notin DOMAIN user_memory

\* C5: a chat whose message is empty or made of whitespace only is answered
\* "Empty message." whether or not the user id is registered, leaves user_memory
\* as it was and calls fetch_news never.
C5_EmptyMessageFirst ==
    [][ (ChatStep /\ AllWhitespaceOf[resp'.message]) =>
            /\ resp'.body = ReplyBody(REPLY_EMPTY)
            /\ user_memory' = user_memory
            /\ last_fetch'.calls = <<>>
      ]_vars

\* a whitespace-only message of an unregistered id was answered "Empty message."
C5_Witness ==
    /\ resp.op = "chat"
    /\ resp.body = ReplyBody(REPLY_EMPTY)
    /\ resp.message # <<>>
    /\ ~(\E i \in 1..Len(users) : users[i].id = resp.user_id)

\* A message with none of the commands and none of "ai", "tech", "news".
PlainOf == [m \in Messages |-> ~HasCommand(m) /\ ~HasKeyword(m)] @@ <<>>

\* C6, as stated: for a registered user, a chat containing "only ai news" stores
\* AI; while AI is stored every chat with none of the commands and none of the
\* keywords takes the AI fetch branch and AI stays stored; a chat containing
\* "reset" leaves the preference unset; with the preference unset, a chat with
\* none of the commands and none of the keywords gets the help text.
C6_AsStated ==
    [][ (ChatStep /\ Registered(resp'.user_id)) =>
            LET id == resp'.user_id
                m == resp'.message
            IN  /\ HasOnlyAiOf[m] => Pref(user_memory', id) = "AI"
                /\ (PlainOf[m] /\ Pref(user_memory, id) = "AI") =>
                       /\ FetchedAs(resp', last_fetch', Q_AI, L_AI)
                       /\ Pref(user_memory', id) = "AI"
                /\ HasResetOf[m] => Pref(user_memory', id) = None
                /\ (PlainOf[m] /\ Pref(user_memory, id) = None) =>
                       /\ resp'.body = ReplyBody(REPLY_HELP)
                       /\ last_fetch'.calls = <<>>
      ]_vars

\* C6, amended: the same for messages that are not empty or whitespace-only, and
\* for a "reset" message that contains neither "only ai news" nor "only tech
\* news".
C6_PreferencePersistsUntilReset ==
    [][ (ChatStep /\ Registered(resp'.user_id)) =>
            LET id == resp'.user_id
                m == resp'.message
            IN  /\ HasOnlyAiOf[m] => Pref(user_memory', id) = "AI"
                /\ (PlainOf[m] /\ ~AllWhitespaceOf[m] /\ Pref(user_memory, id) = "AI") =>
                       /\ FetchedAs(resp', last_fetch', Q_AI, L_AI)
                       /\ Pref(user_memory', id) = "AI"
                /\ (HasResetOf[m] /\ ~HasOnlyAiOf[m] /\ ~HasOnlyTechOf[m]) =>
                       Pref(user_memory', id) = None
                /\ (PlainOf[m] /\ ~AllWhitespaceOf[m] /\ Pref(user_memory, id) = None) =>
                       /\ resp'.body = ReplyBody(REPLY_HELP)
                       /\ last_fetch'.calls = <<>>
      ]_vars

\* "hello" of a user locked to AI went through the AI fetch branch and got a summary
C6_Witness ==
    /\ resp.op = "chat"
    /\ resp.message = M_HELLO
    /\ Pref(user_memory, resp.user_id) = "AI"
    /\ last_fetch.calls = <<Q_AI>>
    /\ resp.body.kind = "reply"
    /\ StartsWith(resp.body.reply, L_AI \o F_UPDATE)

CommandReplies == {REPLY_LOCKED_AI, REPLY_LOCKED_TECH, REPLY_RESET}

\* C7: the preference stored for a user id changes only in a chat of that user
\* that takes a command branch: to AI with "only ai news" in the message and the
\* AI lock reply, to TECH with "only tech news" and the tech lock reply, to unset
\* with "reset" and the reset reply. A step whose response is none of the three
\* command replies (a fetch, the help text, "Empty message.", "Invalid user",
\* a register, a login) changes no stored preference, and no entry is removed.
C7_PreferenceChangesOnlyOnCommands ==
    [][ /\ \A id \in UserIds :
               Pref(user_memory', id) # Pref(user_memory, id) =>
                   /\ ChatStep /\ resp'.user_id = id
                   /\ \/ /\ Pref(user_memory', id) = "AI"
                         /\ HasOnlyAiOf[resp'.message]
                         /\ resp'.body = ReplyBody(REPLY_LOCKED_AI)
                      \/ /\ Pref(user_memory', id) = "TECH"
                         /\ HasOnlyTechOf[resp'.message]
                         /\ resp'.body = ReplyBody(REPLY_LOCKED_TECH)
                      \/ /\ Pref(user_memory', id) = None
                         /\ HasResetOf[resp'.message]
                         /\ resp'.body = ReplyBody(REPLY_RESET)
        /\ (resp'.body.kind # "reply" \/ resp'.body.reply \notin CommandReplies) =>
               \A id \in UserIds : Pref(user_memory', id) = Pref(user_memory, id)
        /\ DOMAIN user_memory \subseteq DOMAIN user_memory'
      ]_vars

\* a keyword-driven AI fetch ("aika") of a user whose preference is and stays unset,
\* while another user's preference is stored
C7_Witness ==
    /\ resp.op = "chat"
    /\ resp.message = M_AIKA
    /\ last_fetch.calls = <<Q_AI>>
    /\ resp.user_id \in DOMAIN user_memory
    /\ user_memory[resp.user_id] = None
    /\ \E id \in DOMAIN user_memory : user_memory[id] = "TECH"

\* C8: when fetch_news was called without an API key, or the request failed,
\* timed out or was answered with a body that is not JSON, fetch_news returned
\* the empty list, no exception left it, and the chat replied "No major updates
\* right now.".
C8_FetchFailsToEmpty ==
    (/\ last_fetch.calls # <<>>
     /\ no_api_key \/ last_fetch.outcome.kind \in {"error", "timeout", "unparsable"}) =>
        /\ last_fetch.returned = <<>>
        /\ ~last_fetch.raised
        /\ resp.op = "chat"
        /\ resp.body = ReplyBody(REPLY_NO_UPDATES)

\* a chat reached a fetch branch with a key and the request timed out
C8_Witness ==
    /\ resp.op = "chat"
    /\ last_fetch.calls = <<Q_TECHNOLOGY>>
    /\ ~no_api_key
    /\ last_fetch.outcome = TimedOut
    /\ resp.body = ReplyBody(REPLY_NO_UPDATES)

\* the lowercased message contains "ai" / "tech" / "news", tabulated
HasAiOf == [m \in Messages |-> str_in(KW_AI, lower(m))] @@ <<>>
HasTechOf == [m \in Messages |-> str_in(KW_TECH, lower(m))] @@ <<>>
HasNewsOf == [m \in Messages |-> str_in(KW_NEWS, lower(m))] @@ <<>>

\* C13: in a chat of a registered user with a non-empty message, whatever the
\* stored preference and the keywords of the message: with "only ai news" in
\* the lowercased message (also next to "only tech news" or "reset") AI is
\* stored and the AI lock reply given; else with "only tech news" (also next to
\* "reset") TECH is stored and the tech lock reply given; else with "reset" the
\* preference is cleared, whatever it was, and the reply is "Preferences
\* reset."; none of the three calls fetch_news.
C13_CommandsFirstInOrder ==
    [][ (ChatStep /\ Registered(resp'.user_id) /\ resp'.message # <<>>) =>
            LET id == resp'.user_id
                m == resp'.message
            IN  /\ HasOnlyAiOf[m] =>
                       /\ Pref(user_memory', id) = "AI"
                       /\ resp'.body = ReplyBody(REPLY_LOCKED_AI)
                       /\ last_fetch'.calls = <<>>
                /\ (~HasOnlyAiOf[m] /\ HasOnlyTechOf[m]) =>
                       /\ Pref(user_memory', id) = "TECH"
                       /\ resp'.body = ReplyBody(REPLY_LOCKED_TECH)
                       /\ last_fetch'.calls = <<>>
                /\ (~HasOnlyAiOf[m] /\ ~HasOnlyTechOf[m] /\ HasResetOf[m]) =>
                       /\ Pref(user_memory', id) = None
                       /\ id \in DOMAIN user_memory'
                       /\ resp'.body = ReplyBody(REPLY_RESET)
                       /\ last_fetch'.calls = <<>>
      ]_vars

\* "only tech news reset" stored TECH for a user while another user is locked to AI
C13_Witness ==
    /\ resp.op = "chat"
    /\ resp.message = M_TECH_RESET
    /\ resp.body = ReplyBody(REPLY_LOCKED_TECH)
    /\ Pref(user_memory, resp.user_id) = "TECH"
    /\ \E id \in DOMAIN user_memory : user_memory[id] = "AI"

\* C14, as stated: in a chat of a registered user whose stored preference is AI
\* (resp. TECH) and whose message contains none of the three commands,
\* fetch_news is called with "AI" and the label is "AI" (resp. "technology" and
\* "TECH").
C14_AsStated ==
    [][ (ChatStep /\ Registered(resp'.user_id) /\ ~HasCommandOf[resp'.message]) =>
            /\ Pref(user_memory, resp'.user_id) = "AI" =>
                   FetchedAs(resp', last_fetch', Q_AI, L_AI)
            /\ Pref(user_memory, resp'.user_id) = "TECH" =>
                   FetchedAs(resp', last_fetch', Q_TECHNOLOGY, L_TECH)
      ]_vars

\* C14, amended: the same for a message that is neither empty nor made of
\* whitespace only, whatever keywords it contains ("tech" or "news" under AI,
\* "ai" under TECH); the stored preference stays as it was.
C14_StoredPreferenceDecidesFetch ==
    [][ (/\ ChatStep /\ Registered(resp'.user_id)
         /\ ~HasCommandOf[resp'.message] /\ ~AllWhitespaceOf[resp'.message]) =>
            /\ Pref(user_memory, resp'.user_id) = "AI" =>
                   /\ FetchedAs(resp', last_fetch', Q_AI, L_AI)
                   /\ Pref(user_memory', resp'.user_id) = "AI"
            /\ Pref(user_memory, resp'.user_id) = "TECH" =>
                   /\ FetchedAs(resp', last_fetch', Q_TECHNOLOGY, L_TECH)
                   /\ Pref(user_memory', resp'.user_id) = "TECH"
      ]_vars

\* "tech news ai" of a user locked to TECH was fetched as technology and summarized
C14_Witness ==
    /\ resp.op = "chat"
    /\ resp.message = M_TECH_NEWS_AI
    /\ Pref(user_memory, resp.user_id) = "TECH"
    /\ last_fetch.calls = <<Q_TECHNOLOGY>>
    /\ resp.body.kind = "reply"
    /\ StartsWith(resp.body.reply, L_TECH \o F_UPDATE)

\* C15, as stated: in a chat of a registered user whose preference is unset and
\* whose message contains none of the three commands: with "ai" anywhere in the
\* lowercased message the AI fetch is made; else with "tech" the technology
\* fetch labelled TECH; else with "news" the news fetch labelled GENERAL; else
\* the reply is the help text and fetch_news is not called.
C15_AsStated ==
    [][ (/\ ChatStep /\ Registered(resp'.user_id)
         /\ Pref(user_memory, resp'.user_id) = None
         /\ ~HasCommandOf[resp'.message]) =>
            LET m == resp'.message
            IN  IF HasAiOf[m] THEN FetchedAs(resp', last_fetch', Q_AI, L_AI)
                ELSE IF HasTechOf[m] THEN FetchedAs(resp', last_fetch', Q_TECHNOLOGY, L_TECH)
                ELSE IF HasNewsOf[m] THEN FetchedAs(resp', last_fetch', Q_NEWS, L_GENERAL)
                ELSE /\ resp'.body = ReplyBody(REPLY_HELP)
                     /\ last_fetch'.calls = <<>>
      ]_vars

\* C15, amended: the same for a message that is neither empty nor made of
\* whitespace only; the preference stays unset.
C15_KeywordsInOrder ==
    [][ (/\ ChatStep /\ Registered(resp'.user_id)
         /\ Pref(user_memory, resp'.user_id) = None
         /\ ~HasCommandOf[resp'.message] /\ ~AllWhitespaceOf[resp'.message]) =>
            LET m == resp'.message
            IN  /\ Pref(user_memory', resp'.user_id) = None
                /\ IF HasAiOf[m] THEN FetchedAs(resp', last_fetch', Q_AI, L_AI)
                   ELSE IF HasTechOf[m] THEN FetchedAs(resp', last_fetch', Q_TECHNOLOGY, L_TECH)
                   ELSE IF HasNewsOf[m] THEN FetchedAs(resp', last_fetch', Q_NEWS, L_GENERAL)
                   ELSE /\ resp'.body = ReplyBody(REPLY_HELP)
                        /\ last_fetch'.calls = <<>>
      ]_vars

\* "tech news ai" of a user with no preference was fetched as AI and summarized
C15_Witness ==
    /\ resp.op = "chat"
    /\ resp.message = M_TECH_NEWS_AI
    /\ Pref(user_memory, resp.user_id) = None
    /\ resp.user_id \in DOMAIN user_memory
    /\ last_fetch.calls = <<Q_AI>>
    /\ resp.body.kind = "reply"
    /\ StartsWith(resp.body.reply, L_AI \o F_UPDATE)

\* C16, as stated: every chat request ends with a {reply: string} payload, no
\* exception leaves the handler, whatever the news source answered.
C16_AsStated ==
    resp.op = "chat" => resp.body.kind = "reply"

\* C17, as stated: for a registered user with no preference, "brain" and "said"
\* get the help text and no fetch_news call, and "aika" gets the AI fetch.
C17_AsStated ==
    [][ (/\ ChatStep /\ Registered(resp'.user_id)
         /\ Pref(user_memory, resp'.user_id) = None) =>
            /\ resp'.message \in {M_BRAIN, M_SAID} =>
                   /\ resp'.body = ReplyBody(REPLY_HELP)
                   /\ last_fetch'.calls = <<>>
            /\ resp'.message = M_AIKA => FetchedAs(resp', last_fetch', Q_AI, L_AI)
      ]_vars

\* C17, amended: for a registered user with no preference, "brain", "said" and
\* "aika" all contain "ai" and all three get the AI fetch, never the help text.
C17_SubstringAiMatches ==
    [][ (/\ ChatStep /\ Registered(resp'.user_id)
         /\ Pref(user_memory, resp'.user_id) = None
         /\ resp'.message \in {M_BRAIN, M_SAID, M_AIKA}) =>
            /\ FetchedAs(resp', last_fetch', Q_AI, L_AI)
            /\ resp'.body # ReplyBody(REPLY_HELP)
      ]_vars

\* "brain" of a user with no preference was fetched as AI and summarized
C17_Witness ==
    /\ resp.op = "chat"
    /\ resp.message = M_BRAIN
    /\ Pref(user_memory, resp.user_id) = None
    /\ last_fetch.calls = <<Q_AI>>
    /\ resp.body.kind = "reply"
    /\ StartsWith(resp.body.reply, L_AI \o F_UPDATE)

----------------------------------------------------------------------------
(* The helpers. *)

\* " - " stands at characters k+1..k+3 of h
SepAt(h, k) == k + 3 <= Len(h) /\ h[k + 1] = " " /\ h[k + 2] = "-" /\ h[k + 3] = " "

\* how many characters of h stand before its first " - " (all, when it has none)
CutPoint(h) ==
    CHOOSE k \in 0..Len(h) :
        /\ SepAt(h, k) \/ k = Len(h)
        /\ \A j \in 0..(k - 1) : ~SepAt(h, j)

\* the same, tabulated over the headlines of the model
CutPointOf == [h \in HeadlinePool |-> CutPoint(h)] @@ <<>>

\* out is what h is cleaned to: the text before the first " - " of h (all of h
\* when it has none), kept whole when it has at most 90 characters and else
\* cut to its first 87 characters followed by "..."
CleanedFrom(h, out) ==
    LET k == CutPointOf[h]
    IN  IF k <= 90 THEN out = SubSeq(h, 1, k)
        ELSE out = SubSeq(h, 1, 87) \o <<".", ".", ".">>

\* C9: the list clean_headlines returns has at most 3 items and at most as many
\* as its input; its i-th item is the i-th input item cleaned; every item has at
\* most 90 characters; the item of an input that contains " - " holds nothing
\* from that " - " on: it is the text before it, or the first 87 characters of
\* that text and "...".
C9_CleanHeadlines ==
    h_pc = "cleaned" =>
        /\ Len(h_cleaned) <= 3
        /\ Len(h_cleaned) <= Len(h_in)
        /\ \A i \in 1..Len(h_cleaned) :
               /\ Len(h_cleaned[i]) <= 90
               /\ CleanedFrom(h_in[i], h_cleaned[i])
               /\ \A k \in 0..Len(h_cleaned[i]) : ~SepAt(h_cleaned[i], k)

\* four headlines were cleaned to three; the first had 95 characters before its " - "
C9_Witness ==
    /\ h_pc = "cleaned"
    /\ Len(h_in) = 4
    /\ Len(h_cleaned) = 3
    /\ h_in[1] = H_LONG_SRC
    /\ Len(h_cleaned[1]) = 90
    /\ h_in[2] = H_SRC

\* C10: summarize returns "No major updates right now." for a list of 0 or 1
\* headlines, whatever the label, and for 2 or more exactly the label, " update: ",
\* the first headline, " and ", the second headline and ".".
C10_Summarize ==
    h_pc = "summarized" =>
        IF Len(h_sum_in) <= 1 THEN h_summary = REPLY_NO_UPDATES
        ELSE /\ h_summary = h_cat \o F_UPDATE \o h_sum_in[1] \o F_AND \o h_sum_in[2] \o F_DOT
             /\ Len(h_summary) = Len(h_cat) + Len(h_sum_in[1]) + Len(h_sum_in[2]) + 15

\* a list of three or more headlines was summarized, the third unlike the second
C10_Witness ==
    /\ h_pc = "summarized"
    /\ Len(h_sum_in) >= 3
    /\ h_sum_in[3] # h_sum_in[2]
    /\ h_cat = L_GENERAL
    /\ h_summary # REPLY_NO_UPDATES

----------------------------------------------------------------------------
(* Concurrent requests. *)

\* threads that are inside a chat request between its setdefault and its return
ChatInFlight == {t \in Threads : th[t].pc \in {"c_read", "c_act"}}

\* C11: however the steps of concurrent chat requests interleave, the requests
\* take effect one at a time, each at a point between its arrival and its
\* return (a request with a command at its assignment, one without at its read
\* of the preference): every reply is the reply the handler gives when run
\* alone on the store left by the requests that took effect before it, with
\* the fetch_news call of that run; the preference stored for every user is
\* the one left by the requests that have taken effect, and the whole store
\* is, whenever no chat is between its setdefault and its return.
C11_ChatLinearizable ==
    /\ \A id \in ConcUserIds : Pref(user_memory, id) = Pref(lin_memory, id)
    /\ ChatInFlight = {} => user_memory = lin_memory
    /\ \A t \in Threads :
           (th[t].op = "chat" /\ th[t].pc = "done") =>
               /\ th[t].body = chat_body(th[t].lin_branch, th[t].fetch)
               /\ th[t].fetch.calls =
                      (IF th[t].lin_branch \in FetchBranches
                       THEN <<branch_query(th[t].lin_branch)>> ELSE <<>>)

\* a request holds the preference it read (unset) while another request of the
\* same user has since stored AI and returned, and gets the help text
C11_Witness ==
    \E a, b \in Threads :
        /\ th[a].op = "chat" /\ th[a].pc = "c_act"
        /\ th[a].message = M_HELLO /\ th[a].pref = None
        /\ th[a].lin_branch = "help"
        /\ th[b].op = "chat" /\ th[b].pc = "done"
        /\ th[b].user_id = th[a].user_id
        /\ th[b].body = ReplyBody(REPLY_LOCKED_AI)
        /\ user_memory[th[a].user_id] = "AI"

\* the thread is in a register call for the username and its INSERT went through
Inserted(t, u) ==
    /\ th[t].op = "register" /\ th[t].username = u
    /\ th[t].pc = "r_commit" \/ th[t].body = StatusBody("registered")

\* C12: however concurrent register calls interleave, the table never holds two
\* rows with one username; the INSERT of a call goes through exactly when the
\* table holds no row with its username at that moment, and adds the row of
\* that call, else the call answers "Username already exists" and leaves the
\* table as it was; of the calls in progress for one username at most one has
\* inserted, it answers "registered", every other answers "Username already
\* exists", and as soon as one of them is past its INSERT the row is there.
C12_ConcurrentRegisterUnique ==
    /\ [](\A i, j \in 1..Len(users) : users[i].username = users[j].username => i = j)
    /\ [][ \A t \in Threads :
               (th[t].pc = "idle" /\ th'[t].op = "register") =>
                   IF HasRow(th'[t].username)
                   THEN /\ th'[t].pc = "done"
                        /\ th'[t].body = ErrorBody("Username already exists")
                        /\ users' = users
                   ELSE /\ th'[t].pc = "r_commit"
                        /\ users' = Append(users, users'[Len(users')])
                        /\ users'[Len(users')].username = th'[t].username
                        /\ users'[Len(users')].password = hash_password(th'[t].password)
         ]_vars
    /\ [](\A u \in Usernames :
              /\ Cardinality({t \in Threads : Inserted(t, u)}) <= 1
              /\ \A t \in Threads :
                     (th[t].op = "register" /\ th[t].username = u) =>
                         /\ HasRow(u)
                         /\ th[t].pc = "done" =>
                                th[t].body = (IF Inserted(t, u) THEN StatusBody("registered")
                                              ELSE ErrorBody("Username already exists")))

\* a register was refused because of the row another call has inserted and not
\* yet committed, with another password
C12_Witness ==
    \E a, b \in Threads :
        /\ th[a].op = "register" /\ th[a].pc = "r_commit"
        /\ th[b].op = "register" /\ th[b].pc = "done"
        /\ th[b].username = th[a].username
        /\ th[b].password # th[a].password
        /\ th[b].body = ErrorBody("Username already exists")
        /\ Len(users) = 2
        /\ users[2].username = th[a].username

\* C18: in every state that concurrent register, login and chat requests can
\* reach, every key of user_memory is the id of a row of the users table,
\* user_memory holds one value per key, which is AI, TECH or None, and no two
\* rows of the table share an id.
C18_MemoryKeysAreUsers ==
    /\ \A id \in DOMAIN user_memory :
           /\ Registered(id)
           /\ user_memory[id] \in {"AI", "TECH", None}
    /\ user_memory = [id \in DOMAIN user_memory |-> user_memory[id]]
    /\ \A i, j \in 1..Len(users) : users[i].id = users[j].id => i = j

\* two users have an entry, one AI and one TECH, while a chat is between its
\* read and its return and a login has been answered a user id
C18_Witness ==
    /\ \E id1, id2 \in DOMAIN user_memory : user_memory[id1] = "AI" /\ user_memory[id2] = "TECH"
    /\ \E a, b \in Threads :
           /\ th[a].op = "chat" /\ th[a].pc = "c_act"
           /\ th[b].op = "login" /\ th[b].body.kind = "user_id"

\* the entry of the id is the same in both stores: absent in both, or the same value
SameEntry(mem1, mem2, id) ==
    /\ id \in DOMAIN mem1 <=> id \in DOMAIN mem2
    /\ id \in DOMAIN mem1 => mem1[id] = mem2[id]

\* C19: every step of a chat request with user id u, alone or interleaved with
\* the requests of other users, leaves the entry of every other id as it was
\* (none created, none changed); the preference the request reads is the entry
\* of u, and its reply is the one the chain gives for the message, that
\* preference and what its own fetch_news call returned.
C19_ChatTouchesOwnEntryOnly ==
    [][ \A t \in Threads :
            (th'[t] # th[t] /\ th'[t].op = "chat") =>
                LET u == th'[t].user_id
                    m == th'[t].message
                IN  /\ \A v \in UserIds \ {u} : SameEntry(user_memory', user_memory, v)
                    /\ th[t].pc = "c_read" => th'[t].pref = user_memory[u]
                    /\ th[t].pc = "c_act" =>
                           \E o \in ConcOutcomes \cup {NotCalled} :
                               LET branch == RouteTable[m][th[t].pref]
                                   fetch == chat_fetch(branch, o)
                               IN  /\ th'[t].fetch = fetch
                                   /\ th'[t].body = chat_body(branch, fetch)
      ]_vars

\* user 1 has locked AI and got the reply while a chat of user 2, whose entry is
\* TECH, is between its read and its return
C19_Witness ==
    \E a, b \in Threads :
        /\ th[a].op = "chat" /\ th[a].pc = "done" /\ th[a].user_id = 1
        /\ th[a].body = ReplyBody(REPLY_LOCKED_AI)
        /\ th[b].op = "chat" /\ th[b].pc = "c_act" /\ th[b].user_id = 2
        /\ th[b].pref = "TECH"
        /\ user_memory = (1 :> "AI") @@ (2 :> "TECH")

====
